---- MODULE Spec2Model ----
(***************************************************************************)
(* A model of langchain-generative-ai: the tool definitions of the README  *)
(* notebook (decorator, BaseTool subclass, StructuredTool.from_function),  *)
(* config.py's set_environment(), and the research assistant of            *)
(* chp02 (load_agent() and the chat page script).                          *)
(*                                                                         *)
(* Three specifications share the variables:                               *)
(*   ToolSpec   the tool cells: construction, introspection, run, arun     *)
(*   EnvSpec    config.py: load_dotenv(), os.getenv, set_environment()     *)
(*   Spec       the chat page: load_agent(), the script, the agent run     *)
(*   LiveSpec   Spec with the fairness of a run that keeps stepping        *)
(***************************************************************************)
EXTENDS Integers, Sequences, FiniteSets, TLC

VARIABLES
    \* ---- the tool cells of the README
    given,      \* the values a construction is given (name, description, ...)
    tools,      \* construction style -> the tool descriptor built, or NoTool
    seen,       \* what the last introspection returned
    last,       \* the last invocation: tool, mode, input, outcome
    \* ---- config.py
    shell,      \* the process environment before config is loaded
    dotenv,     \* the local .env file: variable -> value or None
    environ,    \* os.environ: variable -> value or None (unset)
    config,     \* config's globals OPENAI_API_KEY and HUGGINGFACEHUB_API_TOKEN
    envBefore,  \* os.environ when set_environment() was last entered
    envAtLoad,  \* os.environ right after config was loaded
    lastCall,   \* how set_environment() ended, when it was the last step
    \* ---- the chat page
    pc,         \* the script's position
    prompt,     \* what st.chat_input() returned in this script run
    page,       \* the messages written in this script run
    chain,      \* the executor's tools: name -> descriptor
    run,        \* the agent run in progress
    runId,      \* the number of script runs started
    submitted   \* history: the prompts of the session's earlier script runs

toolVars == <<given, tools, seen, last>>
envVars == <<shell, dotenv, environ, config, envBefore, envAtLoad, lastCall>>
chatVars == <<pc, prompt, page, chain, run, runId, submitted>>
vars == <<toolVars, envVars, chatVars>>

\* Python's None
None == "None"

(***************************************************************************)
(* Values: Python strings and integers, kept in one shape.                 *)
(***************************************************************************)
StrV(s) == [isInt |-> FALSE, int |-> 0, str |-> s]
IntV(n) == [isInt |-> TRUE, int |-> n, str |-> ""]
NoV == StrV(None)

\* calculator.run(dict(a=1_000_000_000, b=2))
Billion == 1000000000

(***************************************************************************)
(* The tool cells of the README.                                           *)
(***************************************************************************)

\* The argument schemas: SearchInput, CalculatorInput (pydantic BaseModel).
SchemaFields(schema) ==
    CASE schema = "SearchInput" ->
           <<[name |-> "query", type |-> "str",
              description |-> "should be a search query"]>>
      [] schema = "CalculatorInput" ->
           <<[name |-> "a", type |-> "int", description |-> "first number"],
             [name |-> "b", type |-> "int", description |-> "second number"]>>
      [] OTHER -> <<>>

\* The signatures of the functions the tools wrap.
FuncParams(func) ==
    CASE func = "search" ->
           <<[name |-> "query", type |-> "str", description |-> None]>>
      [] func = "multiply" ->
           <<[name |-> "a", type |-> "int", description |-> None],
             [name |-> "b", type |-> "int", description |-> None]>>
      [] func = "search_tool" ->
           <<[name |-> "s", type |-> "str", description |-> None]>>
      [] func = "lookup" ->
           <<[name |-> "query", type |-> "str", description |-> None]>>
      [] OTHER -> <<>>

Funcs == {"search", "multiply", "search_tool"}
Styles == {"decorator", "subclass", "factory"}

\* return_direct when the construction does not pass it.
DefaultReturnDirect == FALSE
ReturnDirectOf(rd) == IF rd = "unset" THEN DefaultReturnDirect ELSE rd = "True"

NoTool ==
    [name |-> None, description |-> None, args_schema |-> None,
     return_direct |-> FALSE, func |-> None, handle_tool_error |-> FALSE,
     style |-> "none"]

\* @tool / @tool("search-tool", args_schema=SearchInput, return_direct=True):
\* the function's name unless a name is passed, the docstring as description.
\* (variant: the name passed to the decorator is not used)
ToolDecoratorFunctionName(fname, doc, nameArg, schema, rd) ==
    [name |-> fname,
     description |-> doc,
     args_schema |-> schema,
     return_direct |-> ReturnDirectOf(rd),
     func |-> fname,
     handle_tool_error |-> FALSE,
     style |-> "decorator"]
ToolDecorator(fname, doc, nameArg, schema, rd) ==
    [name |-> IF nameArg = None THEN fname ELSE nameArg,
     description |-> doc,
     args_schema |-> schema,
     return_direct |-> ReturnDirectOf(rd),
     func |-> fname,
     handle_tool_error |-> FALSE,
     style |-> "decorator"]

\* class CustomSearchTool(BaseTool): name, description, args_schema are
\* class attributes, _run is the body.
BaseToolSubclass(name, description, schema, rd, hte, runBody) ==
    [name |-> name,
     description |-> description,
     args_schema |-> schema,
     return_direct |-> ReturnDirectOf(rd),
     func |-> runBody,
     handle_tool_error |-> hte,
     style |-> "subclass"]

\* StructuredTool.from_function(func=, name=, description=, args_schema=,
\* return_direct=, handle_tool_error=)
\* (variant: return_direct is not taken over)
FromFunctionDroppingFlag(func, name, description, schema, rd, hte) ==
    [name |-> name,
     description |-> description,
     args_schema |-> schema,
     return_direct |-> DefaultReturnDirect,
     func |-> func,
     handle_tool_error |-> hte,
     style |-> "factory"]
FromFunction(func, name, description, schema, rd, hte) ==
    [name |-> name,
     description |-> description,
     args_schema |-> schema,
     return_direct |-> ReturnDirectOf(rd),
     func |-> func,
     handle_tool_error |-> hte,
     style |-> "factory"]

\* ---- introspection: tool.name, tool.description, tool.args, tool.return_direct

\* The fields a tool's input has: its args_schema's, or, without one, the
\* ones inferred from the wrapped function's signature.
InputFields(t) ==
    IF t.args_schema # None THEN SchemaFields(t.args_schema)
    ELSE FuncParams(t.func)

Title(n) ==
    CASE n = "query" -> "Query" [] n = "a" -> "A" [] n = "b" -> "B"
      [] n = "s" -> "S" [] OTHER -> n

JsonType(ty) ==
    CASE ty = "str" -> "string" [] ty = "int" -> "integer" [] OTHER -> ty

\* tool.args: {'query': {'title': 'Query', 'type': 'string'}}, the
\* schema's properties (the description of a field when it has one).
PropertiesOf(fields) ==
    { [field |-> fields[i].name,
       title |-> Title(fields[i].name),
       type |-> JsonType(fields[i].type),
       description |-> fields[i].description] : i \in DOMAIN fields }

ToolArgs(t) == PropertiesOf(InputFields(t))

Introspect(t) ==
    [name |-> t.name, description |-> t.description,
     args |-> ToolArgs(t), return_direct |-> t.return_direct]

\* ---- invocation

ArgKeys == {"a", "b", "query", "s"}

StrInput(q) ==
    [isDict |-> FALSE, val |-> StrV(q), keys |-> {},
     dict |-> [k \in ArgKeys |-> NoV]]
DictInput(keys, d) ==
    [isDict |-> TRUE, val |-> NoV, keys |-> keys,
     dict |-> [k \in ArgKeys |-> IF k \in keys THEN d[k] ELSE NoV]]

Returned(v) ==
    [kind |-> "return", value |-> v, exc |-> None, msg |-> None,
     bodyRan |-> TRUE]
Raised(exc, msg, ran) ==
    [kind |-> "raise", value |-> NoV, exc |-> exc, msg |-> msg,
     bodyRan |-> ran]
NoOutcome ==
    [kind |-> "none", value |-> NoV, exc |-> None, msg |-> None,
     bodyRan |-> FALSE]

\* The strings that spell an integer, with the integer each spells, and
\* the integers of the inputs with the string each is written as.
Numerals ==
    { [str |-> "3", int |-> 3], [str |-> "2", int |-> 2],
      [str |-> "-2", int |-> -2], [str |-> "1000000000", int |-> Billion] }
IsNumeral(str) == \E n \in Numerals : n.str = str
IntOf(str) == (CHOOSE n \in Numerals : n.str = str).int
StrOf(int) ==
    IF \E n \in Numerals : n.int = int
    THEN (CHOOSE n \in Numerals : n.int = int).str
    ELSE "int"

\* A field of a pydantic_v1 BaseModel converts the value it is given to its
\* type: an int field takes an integer, and a string that spells one as
\* that integer; a str field takes a string, and an integer as its text.
\* A value that does not convert fails the validation.
Converts(v, ty) ==
    IF ty = "int" THEN v.isInt \/ IsNumeral(v.str) ELSE TRUE
Convert(v, ty) ==
    IF ty = "int"
    THEN (IF v.isInt THEN v ELSE IntV(IntOf(v.str)))
    ELSE (IF v.isInt THEN StrV(StrOf(v.int)) ELSE v)

\* The input is checked against the tool's fields: a string stands for the
\* first field, a dict must hold every field with a value its type takes;
\* the body is called with the fields' converted values.
\* (variant: the input is passed on as it is)
ParseInputUnchecked(t, input) ==
    [ok |-> TRUE,
     kwargs |-> [k \in ArgKeys |->
                   IF input.isDict THEN input.dict[k] ELSE input.val]]
ParseInput(t, input) ==
    LET fields == InputFields(t)
        keys == IF input.isDict THEN input.keys
                ELSE IF fields = <<>> THEN {} ELSE {fields[1].name}
        at(k) == IF input.isDict THEN input.dict[k] ELSE input.val
        ok == \A i \in DOMAIN fields :
                  /\ fields[i].name \in keys
                  /\ Converts(at(fields[i].name), fields[i].type)
        typeOf(k) == IF \E i \in DOMAIN fields : fields[i].name = k
                     THEN fields[CHOOSE i \in DOMAIN fields :
                                    fields[i].name = k].type
                     ELSE "any"
    IN  [ok |-> ok,
         kwargs |-> [k \in ArgKeys |->
                       IF ok /\ k \in keys /\ typeOf(k) # "any"
                       THEN Convert(at(k), typeOf(k))
                       ELSE NoV]]

\* def multiply(a: int, b: int) -> int: return a * b
\* (variant: the product in a 16-bit integer)
multiplyWrapped(a, b) ==
    LET p == a * b IN ((p + 32768) % 65536) - 32768
multiply(a, b) == a * b

ToolExceptionMessage == "The search tool is not available."

\* The bodies: search / search_function / CustomSearchTool._run return
\* "LangChain", multiply returns a * b, search_tool raises ToolException.
\* A built-in tool (wikipedia, arxiv, ddg-search) asks a service outside the
\* process: it returns the page found, or fails when the service is down.
Worlds == {"up", "down"}
CallBody(func, kwargs, world) ==
    CASE func = "search" -> Returned(StrV("LangChain"))
      [] func = "multiply" ->
           Returned(IntV(multiply(kwargs["a"].int, kwargs["b"].int)))
      [] func = "search_tool" ->
           Raised("ToolException", ToolExceptionMessage, TRUE)
      [] func = "lookup" ->
           IF world = "up" THEN Returned(StrV("Page: LangChain"))
           ELSE Raised("ConnectionError", None, TRUE)
      [] OTHER -> Raised("TypeError", None, FALSE)

\* tool.run(input) / tool(input): parse the input, call the body; a
\* ToolException becomes the tool's string result when handle_tool_error
\* is set, and propagates otherwise.
\* (variant: the handled error is reported without its message)
ToolRunGenericMessage(t, input, world) ==
    LET parsed == ParseInput(t, input) IN
    IF ~parsed.ok THEN Raised("ValidationError", None, FALSE)
    ELSE LET r == CallBody(t.func, parsed.kwargs, world) IN
         IF r.kind = "raise" /\ r.exc = "ToolException" /\ t.handle_tool_error
         THEN Returned(StrV("Tool execution error"))
         ELSE r
\* (variant: handle_tool_error is not read)
ToolRunNoHandling(t, input, world) ==
    LET parsed == ParseInput(t, input) IN
    IF ~parsed.ok THEN Raised("ValidationError", None, FALSE)
    ELSE CallBody(t.func, parsed.kwargs, world)
ToolRun(t, input, world) ==
    LET parsed == ParseInput(t, input) IN
    IF ~parsed.ok THEN Raised("ValidationError", None, FALSE)
    ELSE LET r == CallBody(t.func, parsed.kwargs, world) IN
         IF r.kind = "raise" /\ r.exc = "ToolException" /\ t.handle_tool_error
         THEN Returned(StrV(r.msg))
         ELSE r

AsyncMessage == "custom_search does not support async"

\* await tool.arun(input) of the BaseTool subclass: _arun raises
\* NotImplementedError, which is no ToolException and is never converted.
\* (variant: the asynchronous path runs the synchronous body)
ToolARunFallsBack(t, input) == ToolRun(t, input, "up")
ToolARun(t, input) ==
    LET parsed == ParseInput(t, input) IN
    IF ~parsed.ok THEN Raised("ValidationError", None, FALSE)
    ELSE Raised("NotImplementedError", AsyncMessage, FALSE)

\* What a call leaves: the tool object after it, and the call's outcome.
\* No body and no step of run() assigns a field of the tool.
\* (variant: the call sets a field of the tool)
RunOnRebinding(t, input, world) ==
    [tool |-> [t EXCEPT !.return_direct = TRUE],
     outcome |-> ToolRun(t, input, world)]
RunOn(t, input, world) ==
    [tool |-> t, outcome |-> ToolRun(t, input, world)]

\* Only a built-in tool's body reads the world outside the process.
WorldsFor(t) == IF t.func = "lookup" THEN Worlds ELSE {"up"}

\* ---- the cells as a state machine

NameArgs == {None, "search-tool"}
Descriptions == {"Look up things online.", "multiply numbers"}
ReturnDirectArgs == {"unset", "True", "False"}

\* the schema class written for a function, when one is passed
SchemaFor(func) ==
    CASE func = "search" -> "SearchInput"
      [] func = "multiply" -> "CalculatorInput"
      [] OTHER -> None

Givens ==
    { g \in [func : Funcs, name : NameArgs, description : Descriptions,
             args_schema : {None, "SearchInput", "CalculatorInput"},
             return_direct : ReturnDirectArgs,
             handle_tool_error : BOOLEAN] :
        g.args_schema \in {None, SchemaFor(g.func)} }

Queries == {"How do we implement LLM apps?", ""}

ToolInputs ==
    { StrInput(q) : q \in Queries }
    \cup { DictInput({"query"}, [k \in ArgKeys |-> StrV("langchain")]) }
    \cup { DictInput({"a", "b"}, [k \in ArgKeys |-> IF k = "a" THEN a ELSE b]) :
             a \in {IntV(Billion), StrV("x")},
             b \in {IntV(2), IntV(-2)} }
    \cup { DictInput({"a"}, [k \in ArgKeys |-> IntV(3)]) }
    \cup { DictInput({"a", "b"},
                     [k \in ArgKeys |-> IF k = "a" THEN StrV("3") ELSE IntV(2)]) }
    \cup { DictInput({"query"}, [k \in ArgKeys |-> IntV(3)]) }

NoSeen == [style |-> "none", view |-> Introspect(NoTool)]
NoLast ==
    [style |-> "none", mode |-> "none", input |-> StrInput(""),
     outcome |-> NoOutcome]

ToolIdle ==
    /\ given = CHOOSE g \in Givens : TRUE
    /\ tools = [s \in Styles |-> NoTool]
    /\ seen = NoSeen
    /\ last = NoLast

ToolInit ==
    /\ given \in Givens
    /\ tools = [s \in Styles |-> NoTool]
    /\ seen = NoSeen
    /\ last = NoLast

\* @tool(...) def <func>(...): """<description>"""
BuildDecorator ==
    /\ tools["decorator"] = NoTool
    /\ tools' = [tools EXCEPT !["decorator"] =
                   ToolDecorator(given.func, given.description, given.name,
                                 given.args_schema, given.return_direct)]
    /\ UNCHANGED <<given, seen, last>>
    /\ UNCHANGED <<envVars, chatVars>>

\* class ...(BaseTool) with the class attributes; search = CustomSearchTool()
BuildSubclass ==
    /\ tools["subclass"] = NoTool
    /\ given.name # None
    /\ tools' = [tools EXCEPT !["subclass"] =
                   BaseToolSubclass(given.name, given.description,
                                    given.args_schema, given.return_direct,
                                    given.handle_tool_error, given.func)]
    /\ UNCHANGED <<given, seen, last>>
    /\ UNCHANGED <<envVars, chatVars>>

\* StructuredTool.from_function(...)
BuildFactory ==
    /\ tools["factory"] = NoTool
    /\ given.name # None
    /\ tools' = [tools EXCEPT !["factory"] =
                   FromFunction(given.func, given.name, given.description,
                                given.args_schema, given.return_direct,
                                given.handle_tool_error)]
    /\ UNCHANGED <<given, seen, last>>
    /\ UNCHANGED <<envVars, chatVars>>

\* print(tool.name, tool.description, tool.args, tool.return_direct)
IntrospectTool(style) ==
    /\ tools[style] # NoTool
    /\ seen' = [style |-> style, view |-> Introspect(tools[style])]
    /\ UNCHANGED <<given, tools, last>>
    /\ UNCHANGED <<envVars, chatVars>>

\* tool.run(input), tool(input)
Invoke(style, input) ==
    /\ tools[style] # NoTool
    /\ \E world \in WorldsFor(tools[style]) :
         LET r == RunOn(tools[style], input, world) IN
           /\ last' = [style |-> style, mode |-> "run", input |-> input,
                       outcome |-> r.outcome]
           /\ tools' = [tools EXCEPT ![style] = r.tool]
    /\ UNCHANGED <<given, seen>>
    /\ UNCHANGED <<envVars, chatVars>>

\* await tool.arun(input): the source defines the asynchronous path of the
\* BaseTool subclass only.
AInvoke(input) ==
    /\ tools["subclass"] # NoTool
    /\ last' = [style |-> "subclass", mode |-> "arun", input |-> input,
                outcome |-> ToolARun(tools["subclass"], input)]
    /\ UNCHANGED <<given, tools, seen>>
    /\ UNCHANGED <<envVars, chatVars>>

ToolNext ==
    \/ BuildDecorator
    \/ BuildSubclass
    \/ BuildFactory
    \/ \E style \in Styles : IntrospectTool(style)
    \/ \E style \in Styles, input \in ToolInputs : Invoke(style, input)
    \/ \E input \in ToolInputs : AInvoke(input)

(***************************************************************************)
(* config.py                                                               *)
(***************************************************************************)

ConfigKeys == {"OPENAI_API_KEY", "HUGGINGFACEHUB_API_TOKEN"}
EnvNames == ConfigKeys \cup {"PATH"}

\* config's globals in the order the module defines them, each with the
\* words of its name: "API" in key, "TOKEN" in key are read on the words.
ConfigGlobals ==
    <<[key |-> "__name__", words |-> {"name"}],
      [key |-> "os", words |-> {"os"}],
      [key |-> "load_dotenv", words |-> {"load", "dotenv"}],
      [key |-> "OPENAI_API_KEY", words |-> {"OPENAI", "API", "KEY"}],
      [key |-> "HUGGINGFACEHUB_API_TOKEN",
       words |-> {"HUGGINGFACEHUB", "API", "TOKEN"}],
      [key |-> "set_environment", words |-> {"set", "environment"}]>>

\* if "API" in key or "TOKEN" in key
Selected(g) == "API" \in g.words \/ "TOKEN" \in g.words

\* load_dotenv(): every variable of the .env file that the process
\* environment does not hold yet is set from the file (override is not
\* passed, so a variable already set keeps its value).
load_dotenv(env, file) ==
    [k \in EnvNames |->
        IF k \in DOMAIN file /\ file[k] # None /\ env[k] = None
        THEN file[k] ELSE env[k]]

\* os.getenv(key): the value, or None when the variable is not set
\* (variant: the value is read from the .env file)
getenvOfDotenv(env, key) == dotenv[key]
getenv(env, key) == env[key]

\* for key, value in globals().items(): if ...: os.environ[key] = value
\* os.environ[key] = None raises TypeError and ends the loop there.
\* (variant: a global that holds None is passed over)
RECURSIVE SetEnvironmentSkippingNone(_, _, _)
SetEnvironmentSkippingNone(i, env, cfg) ==
    IF i > Len(ConfigGlobals) THEN [environ |-> env, outcome |-> "returned"]
    ELSE LET g == ConfigGlobals[i] IN
         IF ~Selected(g) \/ cfg[g.key] = None
         THEN SetEnvironmentSkippingNone(i + 1, env, cfg)
         ELSE SetEnvironmentSkippingNone(i + 1,
                  [env EXCEPT ![g.key] = cfg[g.key]], cfg)
RECURSIVE SetEnvironmentFrom(_, _, _)
SetEnvironmentFrom(i, env, cfg) ==
    IF i > Len(ConfigGlobals) THEN [environ |-> env, outcome |-> "returned"]
    ELSE LET g == ConfigGlobals[i] IN
         IF ~Selected(g) THEN SetEnvironmentFrom(i + 1, env, cfg)
         ELSE IF cfg[g.key] = None
              THEN [environ |-> env, outcome |-> "TypeError"]
              ELSE SetEnvironmentFrom(i + 1,
                       [env EXCEPT ![g.key] = cfg[g.key]], cfg)

NotLoaded == [loaded |-> FALSE, vals |-> [k \in ConfigKeys |-> None]]

DotenvValues == {None, "dotenv-value"}
ShellValues == {None, "shell-value"}

EnvIdle ==
    /\ dotenv = [k \in ConfigKeys |-> None]
    /\ environ = [k \in EnvNames |-> None]
    /\ shell = environ
    /\ config = NotLoaded
    /\ envBefore = environ
    /\ envAtLoad = environ
    /\ lastCall = "none"

EnvInit ==
    /\ dotenv \in [ConfigKeys -> DotenvValues]
    /\ environ \in { e \in [EnvNames -> ShellValues \cup {"/usr/bin"}] :
                       /\ e["PATH"] = "/usr/bin"
                       /\ \A k \in ConfigKeys : e[k] \in ShellValues }
    /\ shell = environ
    /\ config = NotLoaded
    /\ envBefore = environ
    /\ envAtLoad = environ
    /\ lastCall = "none"

\* import config: load_dotenv(), then the two os.getenv assignments
LoadConfig ==
    /\ ~config.loaded
    /\ LET env == load_dotenv(environ, dotenv) IN
         /\ environ' = env
         /\ config' = [loaded |-> TRUE,
                       vals |-> [k \in ConfigKeys |-> getenv(env, k)]]
         /\ envAtLoad' = env
         /\ envBefore' = env
    /\ UNCHANGED <<shell, dotenv, lastCall>>
    /\ UNCHANGED <<toolVars, chatVars>>

set_environment ==
    /\ config.loaded
    /\ LET r == SetEnvironmentFrom(1, environ, config.vals) IN
         /\ environ' = r.environ
         /\ lastCall' = r.outcome
    /\ envBefore' = environ
    /\ UNCHANGED <<shell, dotenv, config, envAtLoad>>
    /\ UNCHANGED <<toolVars, chatVars>>

\* other code of the process sets or deletes a variable
Putenv(k, v) ==
    /\ config.loaded
    /\ environ[k] # v
    /\ environ' = [environ EXCEPT ![k] = v]
    /\ lastCall' = "none"
    /\ UNCHANGED <<shell, dotenv, config, envBefore, envAtLoad>>
    /\ UNCHANGED <<toolVars, chatVars>>

EnvNext ==
    \/ LoadConfig
    \/ set_environment
    \/ \E k \in EnvNames, v \in {None, "other-value"} : Putenv(k, v)

(***************************************************************************)
(* chp02: load_agent() and the chat page.                                  *)
(***************************************************************************)

MaxSteps == 2   \* tool calls the model may ask for in one run
MaxRuns == 2    \* script runs (Streamlit reruns the script per interaction)

\* load_tools(tool_names=["ddg-search", "arxiv", "wikipedia"], llm=llm)
tool_names == <<"ddg-search", "arxiv", "wikipedia">>

BuiltinTool(name) ==
    [name |-> name,
     description |-> "A wrapper around a service. Input should be a search query.",
     args_schema |-> None,
     return_direct |-> DefaultReturnDirect,
     func |-> "lookup",
     handle_tool_error |-> FALSE,
     style |-> "builtin"]

load_tools(names) ==
    [n \in {names[i] : i \in DOMAIN names} |-> BuiltinTool(n)]

\* The tools the README defines, as an executor would hold them.
ReadmeTools ==
    LET ts == { ToolDecorator("search", "Look up things online.",
                              "search-tool", "SearchInput", "True"),
                FromFunction("search", "Search",
                    "useful for when you need to answer questions about current events",
                    None, "unset", FALSE),
                FromFunction("search_tool", "Search_tool", "A bad tool",
                             None, "unset", TRUE),
                FromFunction("multiply", "Calculator", "multiply numbers",
                             "CalculatorInput", "True", FALSE) }
    IN  [n \in { t.name : t \in ts } |-> CHOOSE t \in ts : t.name = n]

\* load_agent(): AgentExecutor(agent=create_react_agent(llm, tools), tools=tools)
load_agent == load_tools(tool_names)

Toolsets == {load_agent, ReadmeTools}

Prompts == {"what is langchain?", "who wrote it?"}
AgentQueries == {"langchain"}

NoRun ==
    [status |-> "none", input |-> None, scratchpad |-> <<>>,
     pending |-> [tool |-> None, input |-> StrInput("")],
     outcome |-> NoOutcome, shown |-> {},
     output |-> NoV, by |-> "none", exc |-> None,
     modelCalls |-> 0, toolCalls |-> 0]

ChatIdle ==
    /\ pc = "idle"
    /\ prompt = None
    /\ page = <<>>
    /\ chain = load_agent
    /\ run = NoRun
    /\ runId = 0
    /\ submitted = <<>>

ChatInit == ChatIdle

\* Streamlit runs the script: chain = load_agent(); prompt := st.chat_input()
\* (None when nothing was submitted). The page is rendered anew.
\* (variant: the messages of the earlier script run stay on the page)
StartScriptKeepingPage(ts, p) ==
    /\ pc \in {"idle", "end", "error"}
    /\ runId < MaxRuns
    /\ runId' = runId + 1
    /\ submitted' = IF prompt = None THEN submitted
                    ELSE Append(submitted, prompt)
    /\ chain' = ts
    /\ prompt' = p
    /\ page' = page
    /\ run' = NoRun
    /\ pc' = "input"
    /\ UNCHANGED <<toolVars, envVars>>
StartScript(ts, p) ==
    /\ pc \in {"idle", "end", "error"}
    /\ runId < MaxRuns
    /\ runId' = runId + 1
    /\ submitted' = IF prompt = None THEN submitted
                    ELSE Append(submitted, prompt)
    /\ chain' = ts
    /\ prompt' = p
    /\ page' = <<>>
    /\ run' = NoRun
    /\ pc' = "input"
    /\ UNCHANGED <<toolVars, envVars>>

\* if prompt := st.chat_input(): not taken
NoPrompt ==
    /\ pc = "input"
    /\ prompt = None
    /\ pc' = "end"
    /\ UNCHANGED <<prompt, page, chain, run, runId, submitted>>
    /\ UNCHANGED <<toolVars, envVars>>

\* st.chat_message("user").write(prompt), then chain.run(prompt, ...) is entered
WriteUser ==
    /\ pc = "input"
    /\ prompt # None
    /\ page' = Append(page, [role |-> "user", text |-> StrV(prompt)])
    /\ run' = [NoRun EXCEPT !.status = "ask", !.input = prompt]
    /\ pc' = "run"
    /\ UNCHANGED <<prompt, chain, runId, submitted>>
    /\ UNCHANGED <<toolVars, envVars>>

\* The tools as the prompt lists them to the model: name and description.
Rendered(ts) ==
    { [name |-> Introspect(ts[n]).name,
       description |-> Introspect(ts[n]).description] : n \in DOMAIN ts }

\* The executor asks the model for the next action, giving it the input, the
\* tools and the observations so far: the model names a tool and its input ...
ModelActs(name, q) ==
    /\ pc = "run"
    /\ run.status = "ask"
    /\ Len(run.scratchpad) < MaxSteps
    /\ name \in DOMAIN chain
    /\ run' = [run EXCEPT !.status = "exec",
                          !.pending = [tool |-> name, input |-> StrInput(q)],
                          !.shown = Rendered(chain),
                          !.modelCalls = @ + 1]
    /\ UNCHANGED <<pc, prompt, page, chain, runId, submitted>>
    /\ UNCHANGED <<toolVars, envVars>>

\* ... or gives the final answer, which ends the run.
ModelAnswers ==
    /\ pc = "run"
    /\ run.status = "ask"
    /\ run' = [run EXCEPT !.status = "finished",
                          !.output = StrV("Final Answer"),
                          !.by = "final_answer",
                          !.shown = Rendered(chain),
                          !.modelCalls = @ + 1]
    /\ UNCHANGED <<pc, prompt, page, chain, runId, submitted>>
    /\ UNCHANGED <<toolVars, envVars>>

\* What the executor does with a tool's outcome: a failure propagates out of
\* chain.run; the output of a return_direct tool is the run's result; any
\* other output is appended to the observations and the model is asked again.
\* (variants: return_direct is not read; a failure is fed back)
AfterToolIgnoringReturnDirect(r, t, outcome) ==
    IF outcome.kind = "raise"
    THEN [r EXCEPT !.status = "failed", !.exc = outcome.exc,
                   !.toolCalls = @ + 1]
    ELSE [r EXCEPT !.status = "ask",
                   !.scratchpad = Append(@, [tool |-> t.name,
                                             observation |-> outcome.value]),
                   !.toolCalls = @ + 1]
AfterToolSwallowing(r, t, outcome) ==
    IF outcome.kind = "raise"
    THEN [r EXCEPT !.status = "ask",
                   !.scratchpad = Append(@, [tool |-> t.name,
                                             observation |-> StrV("error")]),
                   !.toolCalls = @ + 1]
    ELSE IF t.return_direct
    THEN [r EXCEPT !.status = "finished", !.output = outcome.value,
                   !.by = "return_direct", !.toolCalls = @ + 1]
    ELSE [r EXCEPT !.status = "ask",
                   !.scratchpad = Append(@, [tool |-> t.name,
                                             observation |-> outcome.value]),
                   !.toolCalls = @ + 1]
\* (variant: the model is asked again before the invocation has completed)
AfterToolDeferring(r, t, outcome) ==
    [r EXCEPT !.status = "ask"]
AfterTool(r, t, outcome) ==
    IF outcome.kind = "raise"
    THEN [r EXCEPT !.status = "failed", !.exc = outcome.exc,
                   !.toolCalls = @ + 1]
    ELSE IF t.return_direct
    THEN [r EXCEPT !.status = "finished", !.output = outcome.value,
                   !.by = "return_direct", !.toolCalls = @ + 1]
    ELSE [r EXCEPT !.status = "ask",
                   !.scratchpad = Append(@, [tool |-> t.name,
                                             observation |-> outcome.value]),
                   !.toolCalls = @ + 1]

\* The executor runs the tool the model named.
ExecuteTool ==
    /\ pc = "run"
    /\ run.status = "exec"
    /\ \E world \in WorldsFor(chain[run.pending.tool]) :
         LET t == chain[run.pending.tool]
             r == RunOn(t, run.pending.input, world)
             after == AfterTool(run, t, r.outcome)
         IN  /\ run' = [after EXCEPT !.outcome = r.outcome]
             /\ chain' = [chain EXCEPT ![run.pending.tool] = r.tool]
             /\ pc' = IF after.status = "failed" THEN "error" ELSE pc
    /\ UNCHANGED <<prompt, page, runId, submitted>>
    /\ UNCHANGED <<toolVars, envVars>>

\* response = chain.run(...) has returned; st.write(response)
\* (variant: the response is written while the run is still asking)
WriteResponseEarly ==
    /\ pc = "run"
    /\ run.status \in {"ask", "finished"}
    /\ page' = Append(page, [role |-> "assistant", text |-> run.output])
    /\ pc' = "end"
    /\ UNCHANGED <<prompt, chain, run, runId, submitted>>
    /\ UNCHANGED <<toolVars, envVars>>
WriteResponse ==
    /\ pc = "run"
    /\ run.status = "finished"
    /\ page' = Append(page, [role |-> "assistant", text |-> run.output])
    /\ pc' = "end"
    /\ UNCHANGED <<prompt, chain, run, runId, submitted>>
    /\ UNCHANGED <<toolVars, envVars>>

AgentStep ==
    \/ \E name \in DOMAIN chain, q \in AgentQueries : ModelActs(name, q)
    \/ ModelAnswers
    \/ ExecuteTool

ScriptStep ==
    \/ NoPrompt
    \/ WriteUser
    \/ WriteResponse

ChatNext ==
    \/ \E ts \in Toolsets, p \in Prompts \cup {None} : StartScript(ts, p)
    \/ ScriptStep
    \/ AgentStep

(***************************************************************************)
(* The specifications.                                                     *)
(***************************************************************************)

ToolSpecInit == ToolInit /\ EnvIdle /\ ChatIdle
ToolSpec == ToolSpecInit /\ [][ToolNext]_vars

EnvSpecInit == EnvInit /\ ToolIdle /\ ChatIdle
EnvSpec == EnvSpecInit /\ [][EnvNext]_vars

Init == ChatInit /\ ToolIdle /\ EnvIdle
Next == ChatNext
Spec == Init /\ [][Next]_vars

\* A run of the script is sequential Python: once entered, it keeps stepping.
LiveSpec == Spec /\ WF_vars(ScriptStep \/ AgentStep)

(***************************************************************************)
(* The claims.                                                             *)
(***************************************************************************)

Built == { s \in Styles : tools[s] # NoTool }

\* what introspection must show of a schema's fields: one property per
\* field, with the field's name, type and description
ShowsSchema(args, schema) ==
    /\ Cardinality(args) = Len(SchemaFields(schema))
    /\ \A i \in DOMAIN SchemaFields(schema) :
         \E p \in args :
            /\ p.field = SchemaFields(schema)[i].name
            /\ p.description = SchemaFields(schema)[i].description
            /\ p.type = (IF SchemaFields(schema)[i].type = "int"
                         THEN "integer" ELSE "string")

ShowsGiven(view) ==
    /\ given.name # None => view.name = given.name
    /\ view.description = given.description
    /\ given.args_schema # None => ShowsSchema(view.args, given.args_schema)
    /\ view.return_direct = (given.return_direct = "True")

\* C1: a tool built by the decorator, the BaseTool subclass or
\* StructuredTool.from_function shows, in tool.name, tool.description,
\* tool.args and tool.return_direct, the values its construction was given
\* (return_direct False when none was given), after any number of
\* introspections and invocations.
C1_IntrospectionShowsGiven ==
    /\ \A s \in Built : ShowsGiven(Introspect(tools[s]))
    /\ seen.style \in Built => ShowsGiven(seen.view)

C1_Witness ==
    /\ seen.style \in Built
    /\ last.style = seen.style
    /\ last.outcome.bodyRan
    /\ given.name # None
    /\ given.args_schema # None
    /\ given.return_direct = "True"
    /\ seen.view.return_direct

\* C2: a run with an input that matches the schema returns what the body
\* returns: "LangChain" for every query string given to a search tool, the
\* exact product a * b for the Calculator (1_000_000_000 * 2 is
\* 2_000_000_000).
C2_RunReturnsBodyValue ==
    (last.mode = "run" /\ last.style \in Built) =>
      LET t == tools[last.style]
          in == last.input
      IN  /\ (t.func = "search"
                /\ (~in.isDict \/ (in.keys = {"query"}
                                     /\ ~in.dict["query"].isInt))) =>
                last.outcome = Returned(StrV("LangChain"))
          /\ (t.func = "multiply" /\ in.isDict /\ in.keys = {"a", "b"}
                /\ in.dict["a"].isInt /\ in.dict["b"].isInt) =>
                /\ last.outcome.kind = "return"
                /\ last.outcome.value.isInt
                /\ last.outcome.value.int = in.dict["a"].int * in.dict["b"].int
                /\ (in.dict["a"].int = 1000000000 /\ in.dict["b"].int = 2) =>
                      last.outcome.value.int = 2000000000

C2_Witness ==
    /\ last.mode = "run"
    /\ last.style \in Built
    /\ tools[last.style].func = "multiply"
    /\ tools[last.style].args_schema = "CalculatorInput"
    /\ last.input.isDict
    /\ last.outcome.kind = "return"
    /\ last.outcome.value = IntV(2000000000)

\* C3: a run whose body raises ToolException returns a string and raises
\* nothing when the tool has handle_tool_error set, and raises the
\* ToolException, with no result, when it has not.
C3_ToolExceptionHandling ==
    (last.mode = "run" /\ last.style \in Built
       /\ tools[last.style].func = "search_tool" /\ ~last.input.isDict) =>
      IF tools[last.style].handle_tool_error
      THEN /\ last.outcome.kind = "return"
           /\ ~last.outcome.value.isInt
           /\ last.outcome.exc = None
      ELSE /\ last.outcome.kind = "raise"
           /\ last.outcome.exc = "ToolException"
           /\ last.outcome.value = NoV

C3_Witness ==
    /\ last.mode = "run"
    /\ last.style \in Built
    /\ tools[last.style].func = "search_tool"
    /\ tools[last.style].handle_tool_error
    /\ last.outcome.kind = "return"
    /\ ~last.input.isDict

\* C8: two tools built in different styles from the same name, description,
\* schema, return_direct flag and body (and the same error handling) show
\* the same under introspection and return the same for every synchronous
\* run.
SameGiven(s1, s2) ==
    /\ given.name # None
    /\ tools[s1].handle_tool_error = tools[s2].handle_tool_error

IsCustomSearchTool(t) ==
    /\ t.style = "subclass"
    /\ t.func = "search"
    /\ t.args_schema = "SearchInput"

C9_AsyncDeclined ==
    (last.style = "subclass" /\ IsCustomSearchTool(tools["subclass"])
       /\ ~last.input.isDict) =>
      /\ last.mode = "arun" =>
            /\ last.outcome.kind = "raise"
            /\ last.outcome.exc = "NotImplementedError"
            /\ last.outcome.msg = "custom_search does not support async"
            /\ last.outcome.value = NoV
            /\ ~last.outcome.bodyRan
      /\ last.mode = "run" => last.outcome = Returned(StrV("LangChain"))
      /\ ToolRun(tools["subclass"], last.input, "up")
            = Returned(StrV("LangChain"))

C9_Witness ==
    /\ last.style = "subclass"
    /\ last.mode = "arun"
    /\ IsCustomSearchTool(tools["subclass"])
    /\ ~last.input.isDict
    /\ last.outcome.kind = "raise"

\* C4 as the spec states it: after config is loaded and set_environment()
\* is called, os.environ holds both variables with the values of the .env
\* file, and no other variable was added or changed by the call.
C4_ValuesOfDotenvFile ==
    (lastCall # "none" /\ \A k \in ConfigKeys : dotenv[k] # None) =>
      /\ \A k \in ConfigKeys : environ[k] = dotenv[k]
      /\ \A k \in EnvNames \ ConfigKeys : environ[k] = envBefore[k]

\* C4, amended: when set_environment() returns, os.environ holds both
\* variables with the values config read at load time, which are the value
\* the process environment already had, and the .env file's value only for
\* a variable it did not have; whether the call returns or raises, no
\* variable other than the two was added or changed by it.
C4_ValuesReadAtLoad ==
    /\ lastCall = "returned" =>
         \A k \in ConfigKeys :
            /\ environ[k] # None
            /\ environ[k] = config.vals[k]
            /\ environ[k] = (IF shell[k] # None THEN shell[k] ELSE dotenv[k])
    /\ lastCall # "none" =>
         \A k \in EnvNames \ ConfigKeys : environ[k] = envBefore[k]

C4_Witness ==
    /\ lastCall = "returned"
    /\ shell["OPENAI_API_KEY"] = "shell-value"
    /\ dotenv["OPENAI_API_KEY"] = "dotenv-value"
    /\ environ["OPENAI_API_KEY"] = "shell-value"
    /\ shell["HUGGINGFACEHUB_API_TOKEN"] = None
    /\ environ["HUGGINGFACEHUB_API_TOKEN"] = "dotenv-value"
    /\ envBefore["OPENAI_API_KEY"] = "other-value"

\* ---- the agent run

LoadAgentRun == DOMAIN chain = DOMAIN load_agent

\* the model was asked and named a tool
AskedThenActs ==
    /\ run.status = "ask" /\ run'.status = "exec"
    /\ run'.modelCalls = run.modelCalls + 1
    /\ run'.toolCalls = run.toolCalls
    /\ run'.scratchpad = run.scratchpad
    /\ run'.pending.tool \in DOMAIN chain

\* the model was asked and gave the final answer: the run is over
AskedThenAnswers ==
    /\ run.status = "ask" /\ run'.status = "finished"
    /\ run'.by = "final_answer"
    /\ run'.modelCalls = run.modelCalls + 1
    /\ run'.toolCalls = run.toolCalls

\* the chosen tool ran and its result went back to the model
RanThenFedBack ==
    /\ run.status = "exec" /\ run'.status = "ask"
    /\ run'.toolCalls = run.toolCalls + 1
    /\ run'.modelCalls = run.modelCalls
    /\ run'.outcome.kind = "return"
    /\ run'.scratchpad = Append(run.scratchpad,
                                [tool |-> run.pending.tool,
                                 observation |-> run'.outcome.value])

\* the chosen tool failed and the failure left chain.run
RanThenFailed ==
    /\ run.status = "exec" /\ run'.status = "failed"
    /\ run'.outcome.kind = "raise"
    /\ run'.output = NoV
    /\ pc' = "error"

RunOf(k) == runId = k /\ pc = "run" /\ LoadAgentRun
Answered(k) ==
    /\ runId = k
    /\ run.status = "finished"
    /\ run.by = "final_answer"
Failed(k) == runId = k /\ run.status = "failed" /\ pc = "error"

\* C5 as the spec states it: a run alternates between asking the model and
\* running the chosen tool, whose result goes back to the model; it ends
\* exactly when the model gives a final answer; and, the model answering
\* within MaxSteps tool calls, every run of load_agent()'s executor
\* eventually returns a final answer.
C5_EveryRunAnswers ==
    /\ [][(pc = "run" /\ LoadAgentRun /\ run' # run) =>
            (AskedThenActs \/ AskedThenAnswers \/ RanThenFedBack)]_vars
    /\ \A k \in 1..MaxRuns : RunOf(k) ~> Answered(k)

\* C5, amended: a run of load_agent()'s executor alternates between asking
\* the model and running the chosen tool, whose result goes back to the
\* model; it ends when the model gives a final answer, or when a tool
\* fails, and then the failure leaves chain.run and no answer is returned;
\* the model answering within MaxSteps tool calls, every run eventually
\* ends in one of the two ways.
C5_EveryRunAnswersOrFails ==
    /\ [][(pc = "run" /\ LoadAgentRun /\ run' # run) =>
            (AskedThenActs \/ AskedThenAnswers \/ RanThenFedBack
               \/ RanThenFailed)]_vars
    /\ [][(LoadAgentRun /\ run.status \in {"finished", "failed"}
             /\ runId' = runId) => run' = run]_vars
    /\ \A k \in 1..MaxRuns : RunOf(k) ~> (Answered(k) \/ Failed(k))

C5_Witness ==
    /\ LoadAgentRun
    /\ run.status = "finished"
    /\ run.by = "final_answer"
    /\ Len(run.scratchpad) = MaxSteps
    /\ run.modelCalls = MaxSteps + 1
    /\ run.toolCalls = MaxSteps

\* the executor has just run the tool the model named
ToolJustRan == pc = "run" /\ run.status = "exec" /\ run' # run

\* C6: when the executor runs a tool whose return_direct is true, the
\* tool's output is the run's result as it stands, is what the page shows,
\* and the model is not asked again in that run; when return_direct is
\* false, the output goes to the model as an observation.
C6_ReturnDirect ==
    /\ [][(ToolJustRan /\ run'.outcome.kind = "return") =>
            IF chain[run.pending.tool].return_direct
            THEN /\ run'.status = "finished"
                 /\ run'.by = "return_direct"
                 /\ run'.output = run'.outcome.value
                 /\ run'.modelCalls = run.modelCalls
                 /\ run'.scratchpad = run.scratchpad
            ELSE /\ run'.status = "ask"
                 /\ run'.scratchpad =
                       Append(run.scratchpad,
                              [tool |-> run.pending.tool,
                               observation |-> run'.outcome.value])]_vars
    /\ [][(run.by = "return_direct" /\ runId' = runId) =>
            /\ run' = run
            /\ (page' # page =>
                  page' = Append(page, [role |-> "assistant",
                                        text |-> run.outcome.value]))]_vars

C6_Witness ==
    /\ pc = "end"
    /\ run.by = "return_direct"
    /\ run.outcome = Returned(StrV("LangChain"))
    /\ run.output = StrV("LangChain")
    /\ Len(run.scratchpad) = 1
    /\ run.modelCalls = 2
    /\ Len(page) = 2
    /\ page[2] = [role |-> "assistant", text |-> StrV("LangChain")]

\* C7: a tool descriptor is built when the agent is set up (load_agent() in
\* a script run) and no later step of that session, asking the model with
\* the tools listed, running a tool, a run that fails, writing to the page,
\* changes its name, description, args_schema, return_direct or body.
C7_DescriptorsNeverChange ==
    [][runId' = runId =>
         /\ DOMAIN chain' = DOMAIN chain
         /\ \A n \in DOMAIN chain :
               /\ chain'[n].name = chain[n].name
               /\ chain'[n].description = chain[n].description
               /\ chain'[n].args_schema = chain[n].args_schema
               /\ chain'[n].return_direct = chain[n].return_direct
               /\ chain'[n].func = chain[n].func]_vars

C7_Witness ==
    /\ runId = MaxRuns
    /\ run.status = "failed"
    /\ run.toolCalls = 2
    /\ run.shown # {}
    /\ \A n \in DOMAIN chain : chain[n] = BuiltinTool(n)

\* a tool whose body raises ToolException and whose error is converted
Converting(t) == t.func = "search_tool" /\ t.handle_tool_error

\* C10: at the agent a tool failure has two outcomes. Left to propagate, it
\* stops the run there: no further model call, tool call or answer comes
\* from that run. Converted to a string (handle_tool_error), the string is
\* the tool's result, the model gets it as the observation and the run goes
\* on to its next step: that failure does not end the run.
C10_FailureOutcomes ==
    /\ [][(ToolJustRan /\ run'.outcome.kind = "raise") =>
            /\ run'.status = "failed"
            /\ pc' = "error"
            /\ run'.output = NoV
            /\ page' = page]_vars
    /\ [][(run.status = "failed" /\ runId' = runId) =>
            (run' = run /\ page' = page /\ pc' = pc)]_vars
    /\ [][(ToolJustRan /\ Converting(chain[run.pending.tool])) =>
            /\ run'.outcome = Returned(StrV("The search tool is not available."))
            /\ run'.status = "ask"
            /\ pc' = "run"
            /\ run'.scratchpad =
                  Append(run.scratchpad,
                         [tool |-> run.pending.tool,
                          observation |->
                             StrV("The search tool is not available.")])]_vars
    /\ [](run.status = "failed" => ~ENABLED AgentStep)
    /\ []((pc = "run" /\ run.status = "ask") => ENABLED ModelAnswers)

C10_Witness ==
    /\ run.status = "finished"
    /\ run.by = "final_answer"
    /\ Len(run.scratchpad) = 1
    /\ run.scratchpad[1] =
          [tool |-> "Search_tool",
           observation |-> StrV("The search tool is not available.")]

\* the model is asked for the next action in this step
ModelAsked == pc = "run" /\ run'.modelCalls = run.modelCalls + 1

\* C11: tool invocation in a run is synchronous and one at a time. The
\* model is asked only when every invocation it has asked for has completed;
\* an invocation in progress is the only one and is of the tool asked for
\* last; it completes, with a result or a failure, in the next step of the
\* run, before any model call; its outcome is that of the tool on that
\* input alone, and it leaves the tools as they were for the next one.
C11_OneInvocationAtATime ==
    /\ [][ModelAsked =>
            /\ run.status = "ask"
            /\ run.toolCalls = run.modelCalls
            /\ run.toolCalls = Len(run.scratchpad)]_vars
    /\ [][(pc = "run" /\ run.status = "exec" /\ runId' = runId) =>
            /\ run.toolCalls = run.modelCalls - 1
            /\ run'.toolCalls = run.toolCalls + 1
            /\ run'.modelCalls = run.modelCalls
            /\ run'.outcome.kind \in {"return", "raise"}
            /\ run'.status # "exec"]_vars
    /\ [][ToolJustRan =>
            /\ \E w \in Worlds :
                  run'.outcome =
                     ToolRun(chain[run.pending.tool], run.pending.input, w)
            /\ chain' = chain]_vars

C11_Witness ==
    /\ pc = "end"
    /\ run.status = "finished"
    /\ run.modelCalls = 3
    /\ run.toolCalls = 2
    /\ Len(run.scratchpad) = 2
    /\ run.scratchpad[1] = run.scratchpad[2]
    /\ Len(page) = 2

\* C12: the tool the decorator builds has the function's name as its name
\* when the decorator is bare, and the name passed to the decorator, which
\* is not the function's name, when one is passed ("search-tool" for def
\* search); its description is the function's docstring in both cases; and
\* introspection shows that name and description, before and after runs.
C12_DecoratorNameAndDocstring ==
    LET t == tools["decorator"] IN
    t # NoTool =>
      /\ given.name = None => t.name = given.func
      /\ given.name # None => (t.name = given.name /\ t.name # given.func)
      /\ t.description = given.description
      /\ Introspect(t).name = t.name
      /\ Introspect(t).description = given.description
      /\ seen.style = "decorator" =>
            /\ seen.view.name = (IF given.name = None THEN given.func
                                 ELSE given.name)
            /\ seen.view.description = given.description

C12_Witness ==
    /\ given.func = "search"
    /\ given.name = "search-tool"
    /\ given.description = "Look up things online."
    /\ tools["decorator"].name = "search-tool"
    /\ seen.style = "decorator"
    /\ seen.view.name = "search-tool"
    /\ seen.view.description = "Look up things online."
    /\ last.style = "decorator"
    /\ last.outcome = Returned(StrV("LangChain"))

\* the Calculator: multiply behind the CalculatorInput schema
IsCalculator(t) == t.func = "multiply" /\ t.args_schema = "CalculatorInput"

\* the input, read as the schema reads it: a dict's keys, a string as the
\* value of the first field
HasField(in, k) == IF in.isDict THEN k \in in.keys ELSE k = "a"
FieldOf(in, k) == IF in.isDict THEN in.dict[k] ELSE in.val

Rejected(o) == o.kind = "raise" /\ o.exc = "ValidationError" /\ ~o.bodyRan

IsSearchTool(t) == t.func = "search_tool" /\ t.handle_tool_error

\* C14: every run of the Search_tool (body raising ToolException("The
\* search tool is not available."), handle_tool_error=True) on an input
\* string raises nothing and returns a string, and that string is the
\* exception's message; the body was executed.
C14_HandledErrorCarriesMessage ==
    (last.mode = "run" /\ last.style \in Built
       /\ IsSearchTool(tools[last.style]) /\ ~last.input.isDict) =>
      /\ last.outcome.kind = "return"
      /\ last.outcome.exc = None
      /\ ~last.outcome.value.isInt
      /\ last.outcome.value.str = "The search tool is not available."
      /\ last.outcome.bodyRan
      /\ \A q \in Queries :
            ToolRun(tools[last.style], StrInput(q), "up").value
               = StrV("The search tool is not available.")

C14_Witness ==
    /\ last.mode = "run"
    /\ last.style = "factory"
    /\ IsSearchTool(tools["factory"])
    /\ given.args_schema = None
    /\ last.input = StrInput("How do we implement LLM apps?")
    /\ last.outcome.value = StrV("The search tool is not available.")

UserMessage(p) == [role |-> "user", text |-> StrV(p)]
AssistantMessage(v) == [role |-> "assistant", text |-> v]

PageOf(p, r) ==
    IF p = None \/ r.status = "none" THEN <<>>
    ELSE IF pc = "end" THEN <<UserMessage(p), AssistantMessage(r.output)>>
    ELSE <<UserMessage(p)>>

\* C16: whatever prompts the earlier script runs of the session had, a
\* script run starts from an empty page, no run and a newly built executor;
\* the page holds its own prompt and its own answer only; the agent's run
\* starts from that prompt alone, with no observation and no call made; no
\* step of a script run records anything for a later one.
C16_PromptsIndependent ==
    /\ page = PageOf(prompt, run)
    /\ run.status # "none" => run.input = prompt
    /\ run.modelCalls = 0 => run.scratchpad = <<>>
    /\ chain \in Toolsets
    /\ pc = "input" => (page = <<>> /\ run = NoRun)
    /\ (run.status = "ask" /\ run.modelCalls = 0) =>
          run = [NoRun EXCEPT !.status = "ask", !.input = prompt]
    /\ \A i \in DOMAIN run.scratchpad :
          run.scratchpad[i].tool \in DOMAIN chain

C16_Witness ==
    /\ runId = 2
    /\ submitted = <<"what is langchain?">>
    /\ prompt = "who wrote it?"
    /\ pc = "end"
    /\ run.input = "who wrote it?"
    /\ run.modelCalls = 1
    /\ page = <<UserMessage("who wrote it?"), AssistantMessage(run.output)>>

\* set_environment() was the last step, entered with os.environ as it was
\* right after config was loaded
CalledOnLoadedEnv == lastCall # "none" /\ envBefore = envAtLoad

\* C17: set_environment() writes the values config read from the process
\* environment at load time. Called on the environment as it was right
\* after loading, it leaves the environment as it was; called again after
\* any call, it changes nothing more and ends as that call ended.
C17_SetEnvironmentIdempotent ==
    /\ lastCall # "none" =>
         /\ \A k \in EnvNames :
               environ[k] # envBefore[k] =>
                  (k \in ConfigKeys /\ environ[k] = envAtLoad[k])
         /\ SetEnvironmentFrom(1, environ, config.vals) =
               [environ |-> environ, outcome |-> lastCall]
    /\ CalledOnLoadedEnv => environ = envAtLoad
    /\ config.loaded => \A k \in ConfigKeys : config.vals[k] = envAtLoad[k]

C17_Witness ==
    /\ CalledOnLoadedEnv
    /\ lastCall = "returned"
    /\ environ = envAtLoad
    /\ shell["OPENAI_API_KEY"] = "shell-value"
    /\ shell["HUGGINGFACEHUB_API_TOKEN"] = None
    /\ environ["HUGGINGFACEHUB_API_TOKEN"] = "dotenv-value"

FirstKey == "OPENAI_API_KEY"
SecondKey == "HUGGINGFACEHUB_API_TOKEN"

\* C18: set_environment() stores no absent value. When config read no
\* value for one of the two variables, the call ends in TypeError and does
\* not complete, and it completes otherwise; the call leaves a variable
\* config has no value for as it was, unset; OPENAI_API_KEY, visited before
\* HUGGINGFACEHUB_API_TOKEN, holds the value written when the error comes
\* at HUGGINGFACEHUB_API_TOKEN.
C18_NeverStoresNone ==
    lastCall # "none" =>
      /\ lastCall = (IF \E k \in ConfigKeys : config.vals[k] = None
                     THEN "TypeError" ELSE "returned")
      /\ \A k \in EnvNames : environ[k] # envBefore[k] => environ[k] # None
      /\ \A k \in ConfigKeys :
            config.vals[k] = None =>
               /\ environ[k] = envBefore[k]
               /\ (envBefore[k] = envAtLoad[k] => environ[k] = None)
      /\ (config.vals[FirstKey] # None /\ config.vals[SecondKey] = None) =>
            environ[FirstKey] = config.vals[FirstKey]
      /\ config.vals[FirstKey] = None =>
            environ[SecondKey] = envBefore[SecondKey]

C18_Witness ==
    /\ lastCall = "TypeError"
    /\ config.vals[FirstKey] = "dotenv-value"
    /\ config.vals[SecondKey] = None
    /\ envBefore[FirstKey] = "other-value"
    /\ environ[FirstKey] = "dotenv-value"
    /\ environ[SecondKey] = None

====
